---- MODULE Spec2Model ----
(***************************************************************************)
(* Model of the detection aggregation engine: the provider base class with *)
(* its safe_detect wrapper (src/src/providers/__init__.py) and the         *)
(* DetectionAggregator (src/src/aggregation/service.py): the fan-out over  *)
(* the registered providers, the risk fusion and the explanation           *)
(* generator.                                                              *)
(*                                                                         *)
(* Numbers: a confidence is a whole number of percent; a weight is kept in *)
(* tenths (1.0 -> 10, 0.5 -> 5, 0.3 -> 3); the overall confidence is the   *)
(* exact quotient, kept as a fraction [num, den] (float rounding is not    *)
(* modelled).                                                              *)
(***************************************************************************)
EXTENDS Integers, Sequences, FiniteSets, TLC

VARIABLES
    pc,             \* position of the analyze_file coroutine
    task,           \* one entry per provider task handed to asyncio.gather
    detectCalls,    \* per provider: how often its detect was invoked
    valid_results,  \* analyze_file's local list of DetectionResult
    assessment,     \* the UnifiedAnalysisResult returned by analyze_file
    configCheck,    \* history: what each check_configuration() call did
    detected,       \* history: what each detect call did
    firstDone,      \* history: the provider whose task finished first
    call,           \* one provider's safe_detect call: its inputs
    reqs,           \* the POST /api/analyze requests: where each one is
    rate_limits,    \* SecurityValidator.rate_limits
    analysis_results,  \* router.analysis_results, in insertion order
    now,            \* time.time() / datetime.now()
    response        \* what the last GET request returned

vars == <<pc, task, detectCalls, valid_results, assessment,
          configCheck, detected, firstDone, call,
          reqs, rate_limits, analysis_results, now, response>>

hist == <<configCheck, detected, firstDone>>

\* what analyze_file of the aggregator never touches
ext == <<call, reqs, rate_limits, analysis_results, now, response>>

----------------------------------------------------------------------------
(* aggregation/schemas.py *)

RiskLevel == {"low", "medium", "high", "critical"}

ProviderStatus == {"success", "error", "timeout", "not_configured"}

\* Python's None (error_message: Optional[str] = None)
None == "<None>"

\* metadata: Dict[str, Any]; a key that is absent reads as the default that
\* the consumer's .get(key, default) supplies, so {} is all defaults.
EmptyMetadata ==
    [risk_factors |-> <<>>, celebrities |-> <<>>, total_faces |-> 0,
     techniques_detected |-> <<>>, music |-> <<>>, matches |-> <<>>]

----------------------------------------------------------------------------
(* aggregation/service.py: the registered providers, in registration order *)

providers ==
    <<"Google_Vision", "AWS_Rekognition", "TinEye", "Sensity_AI", "ACRCloud">>

ProviderIds == 1..Len(providers)

\* str.lower() on the provider names
Lower(name) ==
    CASE name = "Google_Vision"   -> "google_vision"
      [] name = "AWS_Rekognition" -> "aws_rekognition"
      [] name = "TinEye"          -> "tineye"
      [] name = "Sensity_AI"      -> "sensity_ai"
      [] name = "ACRCloud"        -> "acrcloud"

\* the capability tag each provider's detect passes to _create_result
CapabilityOf(name) ==
    CASE name = "Google_Vision"   -> "image_analysis"
      [] name = "AWS_Rekognition" -> "face_detection"
      [] name = "TinEye"          -> "reverse_search"
      [] name = "Sensity_AI"      -> "deepfake_detection"
      [] name = "ACRCloud"        -> "audio_fingerprint"

\* f"{self.provider_name} is not configured"
NotConfiguredMessage(name) ==
    CASE name = "Google_Vision"   -> "Google_Vision is not configured"
      [] name = "AWS_Rekognition" -> "AWS_Rekognition is not configured"
      [] name = "TinEye"          -> "TinEye is not configured"
      [] name = "Sensity_AI"      -> "Sensity_AI is not configured"
      [] name = "ACRCloud"        -> "ACRCloud is not configured"

----------------------------------------------------------------------------
(* providers/__init__.py: BaseDetectionProvider *)

\* _create_result with every keyword spelled out
CreateResult(provider_name, capability, status, confidence, risk_level, matches_found, processing_time_ms, metadata, error_message) ==
    [provider           |-> provider_name,
     capability         |-> capability,
     status             |-> status,
     confidence         |-> confidence,
     risk_level         |-> risk_level,
     matches_found      |-> matches_found,
     processing_time_ms |-> processing_time_ms,
     metadata           |-> metadata,
     error_message      |-> error_message]

\* mutant: high from a confidence of 80 on
DetermineRiskLevel_HighFrom80(confidence, matches) ==
    IF matches = 0 THEN "low"
    ELSE IF confidence >= 90 /\ matches >= 5 THEN "critical"
    ELSE IF confidence >= 80 /\ matches >= 3 THEN "high"
    ELSE IF confidence >= 50 \/ matches >= 1 THEN "medium"
    ELSE "low"

\* _determine_risk_level
DetermineRiskLevel(confidence, matches) ==
    IF matches = 0 THEN "low"
    ELSE IF confidence >= 90 /\ matches >= 5 THEN "critical"
    ELSE IF confidence >= 75 /\ matches >= 3 THEN "high"
    ELSE IF confidence >= 50 \/ matches >= 1 THEN "medium"
    ELSE "low"

\* the exceptions a detect can raise; str(e) is the message
Faults ==
    {[cls |-> "ConnectError",    msg |-> "connection refused"],
     [cls |-> "JSONDecodeError", msg |-> "malformed provider response"]}

Str(e) == e.msg

\* int((time.time() - start_time) * 1000): the elapsed milliseconds
ElapsedMs == {35}

\* mutant: the not-configured report built with the error status
SafeDetectNotConfigured_AsError(name) ==
    CreateResult(name, Lower(name), "error", 0, "low", 0, 0,
                 EmptyMetadata, NotConfiguredMessage(name))

\* safe_detect, first branch: check_configuration() returned False
SafeDetectNotConfigured(name) ==
    CreateResult(name, Lower(name), "not_configured", 0, "low", 0, 0,
                 EmptyMetadata, NotConfiguredMessage(name))

\* mutant: a returned report that is not a success is re-labelled as error
SafeDetectReturned_Relabels(result, elapsed) ==
    [result EXCEPT !.processing_time_ms = elapsed,
                   !.status = IF @ = "success" THEN "success" ELSE "error"]

\* safe_detect, try branch: detect returned result
SafeDetectReturned(result, elapsed) ==
    [result EXCEPT !.processing_time_ms = elapsed]

\* mutant: the except branch drops the exception's message
SafeDetectCaught_NoMessage(name, e, elapsed) ==
    CreateResult(name, Lower(name), "error", 0, "low", 0, elapsed,
                 EmptyMetadata, None)

\* safe_detect, except branch: detect raised e
SafeDetectCaught(name, e, elapsed) ==
    CreateResult(name, Lower(name), "error", 0, "low", 0, elapsed,
                 EmptyMetadata, Str(e))

----------------------------------------------------------------------------
(* aggregation/service.py: risk fusion *)

\* r.status.value == "success"
IsSuccess(r) == r.status = "success"

\* successful_results = [r for r in results if r.status.value == "success"]
\* mutant: no filter on the status
SuccessfulResults_Unfiltered(results) == results

SuccessfulResults(results) == SelectSeq(results, IsSuccess)

\* risk_scores.get(result.risk_level.value, 0)
RiskScore(level) ==
    CASE level = "low"      -> 0
      [] level = "medium"   -> 1
      [] level = "high"     -> 2
      [] level = "critical" -> 3
      [] OTHER              -> 0

\* mutant: the confidence bonus given from 80 on
Weight_AtLeast80(r) ==
    10 + (IF r.matches_found > 0 THEN 5 ELSE 0)
       + (IF r.confidence >= 80 THEN 3 ELSE 0)

\* weight = 1.0; += 0.5 if matches_found > 0; += 0.3 if confidence > 80
\* (in tenths)
Weight(r) ==
    10 + (IF r.matches_found > 0 THEN 5 ELSE 0)
       + (IF r.confidence > 80 THEN 3 ELSE 0)

\* mutant: max_risk_score = risk_score
Max_Last(a, b) == b

\* max(max_risk_score, risk_score)
Max(a, b) == IF a >= b THEN a ELSE b

\* the for loop over successful_results: the accumulators after the first n
\* results
RECURSIVE FusionLoop(_, _)
FusionLoop(successful, n) ==
    IF n = 0
    THEN [total_confidence |-> 0, total_weight |-> 0, max_risk_score |-> 0]
    ELSE LET acc    == FusionLoop(successful, n - 1)
             result == successful[n]
             weight == Weight(result)
         IN  [total_confidence |->
                  acc.total_confidence + result.confidence * weight,
              total_weight     |-> acc.total_weight + weight,
              max_risk_score   |->
                  Max(acc.max_risk_score, RiskScore(result.risk_level))]

\* 0.0
Zero == [num |-> 0, den |-> 1]

\* min(overall_confidence, 100.0) on a fraction with den > 0
Min100(q) == IF q.num > 100 * q.den THEN [num |-> 100, den |-> 1] ELSE q

\* the tier chosen from max_risk_score
RiskOfScore(max_risk_score) ==
    IF max_risk_score >= 3 THEN "critical"
    ELSE IF max_risk_score >= 2 THEN "high"
    ELSE IF max_risk_score >= 1 THEN "medium"
    ELSE "low"

\* _calculate_overall_risk: <<overall_risk, overall_confidence>>
CalculateOverallRisk(results) ==
    IF results = <<>> THEN <<"low", Zero>>
    ELSE LET successful_results == SuccessfulResults(results)
         IN  IF successful_results = <<>> THEN <<"low", Zero>>
             ELSE LET acc == FusionLoop(successful_results,
                                        Len(successful_results))
                      overall_confidence ==
                          IF acc.total_weight > 0
                          THEN [num |-> acc.total_confidence,
                                den |-> acc.total_weight]
                          ELSE Zero
                  IN  <<RiskOfScore(acc.max_risk_score),
                        Min100(overall_confidence)>>

----------------------------------------------------------------------------
(* aggregation/service.py: explanation generator *)

\* A risk-factor string, kept as the text of its f-string template with the
\* values formatted into it.
Factor(text, name, num) == [text |-> text, name |-> name, num |-> num]

\* a string taken over as it is
Plain(s) == Factor(s, "", 0)

\* f"Celebrity detected: {name} ({confidence:.1f}% confidence)"
CelebrityFactor(celeb) ==
    Factor("Celebrity detected: {name} ({confidence:.1f}% confidence)",
           celeb.name, celeb.confidence)

\* f"{faces_count} human face(s) detected"
FacesFactor(faces_count) ==
    Factor("{faces_count} human face(s) detected", "", faces_count)

DefaultFactor == Plain("Content analyzed - standard digital media detected")

\* factors.extend(risk_factors)
PlainFactors(risk_factors) ==
    [k \in 1..Len(risk_factors) |-> Plain(risk_factors[k])]

\* for celeb in celebrities: factors.append(...)
CelebrityFactors(celebrities) ==
    [k \in 1..Len(celebrities) |-> CelebrityFactor(celebrities[k])]

\* the body of the for loop of _generate_risk_factors: what one result adds
FactorsOfResult(result) ==
    IF result.status = "success" /\ result.matches_found > 0
    THEN IF result.capability = "image_analysis"
         THEN PlainFactors(result.metadata.risk_factors)
         ELSE IF result.capability = "face_detection"
         THEN LET celebrities == result.metadata.celebrities
              IN  IF celebrities # <<>>
                  THEN CelebrityFactors(celebrities)
                  ELSE LET faces_count == result.metadata.total_faces
                       IN  IF faces_count > 0
                           THEN <<FacesFactor(faces_count)>>
                           ELSE <<>>
         ELSE <<>>
    ELSE <<>>

\* factors after the first n results
RECURSIVE FactorsLoop(_, _)
FactorsLoop(results, n) ==
    IF n = 0 THEN <<>>
    ELSE FactorsLoop(results, n - 1) \o FactorsOfResult(results[n])

\* mutant: no default factor
GenerateRiskFactors_NoDefault(results) == FactorsLoop(results, Len(results))

\* _generate_risk_factors
GenerateRiskFactors(results) ==
    LET factors == FactorsLoop(results, Len(results))
    IN  IF factors = <<>> THEN <<DefaultFactor>> ELSE factors

HighRecommendations ==
    <<"Review content for potential policy violations",
      "Consider implementing additional content safeguards",
      "Monitor for unauthorized usage across platforms",
      "Document analysis results for compliance records">>

MediumRecommendations ==
    <<"Standard monitoring recommended for this content type",
      "Consider watermarking for future content protection",
      "Regular analysis recommended for similar content",
      "Implement basic usage tracking">>

LowRecommendations ==
    <<"Content appears standard - continue normal monitoring",
      "Consider periodic re-analysis for valuable content",
      "Implement preventive digital watermarking",
      "Stay updated on emerging AI detection technologies">>

\* mutant: the first set only for critical, high falls to the medium set
GenerateRecommendations_CriticalOnly(results, risk_level) ==
    IF risk_level = "critical" THEN HighRecommendations
    ELSE IF risk_level \in {"high", "medium"} THEN MediumRecommendations
    ELSE LowRecommendations

\* _generate_recommendations
GenerateRecommendations(results, risk_level) ==
    IF risk_level \in {"high", "critical"} THEN HighRecommendations
    ELSE IF risk_level = "medium" THEN MediumRecommendations
    ELSE LowRecommendations

----------------------------------------------------------------------------
(* aggregation/service.py: analyze_file after the gather *)

\* sum(r.matches_found for r in valid_results if r.matches_found > 0)
RECURSIVE TotalMatches(_, _)
TotalMatches(results, n) ==
    IF n = 0 THEN 0
    ELSE TotalMatches(results, n - 1)
         + (IF results[n].matches_found > 0
            THEN results[n].matches_found ELSE 0)

\* the UnifiedAnalysisResult built from valid_results
BuildAssessment(results) ==
    LET overall == CalculateOverallRisk(results)
    IN  [overall_risk_level |-> overall[1],
         overall_confidence |-> overall[2],
         total_matches      |-> TotalMatches(results, Len(results)),
         results            |-> results,
         risk_factors       |-> GenerateRiskFactors(results),
         recommendations    |-> GenerateRecommendations(results, overall[1])]

----------------------------------------------------------------------------
(* The providers behind the registry.  detect and check_configuration are  *)
(* the abstract methods of BaseDetectionProvider: a provider may answer    *)
(* True or False to check_configuration (or fault in it), and its detect   *)
(* may return any DetectionResult or raise.                                *)

\* metadata a successful detect fills in for its capability
PopulatedMetadata(capability) ==
    CASE capability = "image_analysis" ->
           [EmptyMetadata EXCEPT
              !.risk_factors = <<"6 human face(s) detected">>]
      [] capability = "face_detection" ->
           [EmptyMetadata EXCEPT
              !.celebrities = <<[name |-> "Ada Example", confidence |-> 97]>>,
              !.total_faces = 1]
      [] capability = "reverse_search" ->
           [EmptyMetadata EXCEPT !.matches = <<"example.org/copy.jpg">>]
      [] capability = "deepfake_detection" ->
           [EmptyMetadata EXCEPT !.techniques_detected = <<"face_swap">>]
      [] capability = "audio_fingerprint" ->
           [EmptyMetadata EXCEPT !.music = <<"Shape of You">>]

\* the reports detect returns (processing_time_ms left at its default 0)
DetectReturns(name) ==
    LET capability == CapabilityOf(name)
    IN  {CreateResult(name, capability, "success", 95, "critical", 6, 0,
                      PopulatedMetadata(capability), None),
         CreateResult(name, capability, "success", 40, "low", 0, 0,
                      EmptyMetadata, None),
         CreateResult(name, capability, "error", 0, "low", 0, 0,
                      EmptyMetadata, "unsupported file type"),
         CreateResult(name, capability, "timeout", 0, "low", 0, 0,
                      EmptyMetadata, "request timed out")}

\* what check_configuration() can do
ConfigurationOutcomes == {"True", "False", "raise"}

----------------------------------------------------------------------------
(* The dispatcher: analyze_file and the safe_detect tasks it gathers *)

NoResult == "none"

NoAssessment == "none"

NoCall == "none"

\* the request ids of the model: the k-th POST /api/analyze
MaxRequests == 2

RequestIds == 1..MaxRequests

Clients == {"10.0.0.1"}

NoRequest == [pc |-> "none"]

NoResponse == [op |-> "none"]

\* the router and the validator after import: empty store, no timestamps
RouterIdle ==
    /\ reqs = [r \in RequestIds |-> NoRequest]
    /\ rate_limits = [c \in Clients |-> <<>>]
    /\ analysis_results = <<>>
    /\ now = 0
    /\ response = NoResponse

\* mutant: a task that raised never counts as finished
Finished_OnlyReturned(t) == t.st = "returned"

Finished(t) == t.st \in {"returned", "raised"}

\* history: the first provider to finish stays the first
FirstDone(i) == IF firstDone = 0 THEN i ELSE firstDone

\* analyze_file up to the await: one safe_detect coroutine per provider, in
\* registration order, handed to asyncio.gather
AnalyzeFileStart ==
    /\ pc = "idle"
    /\ pc' = "gathering"
    /\ task' = [i \in ProviderIds |-> [st |-> "new", res |-> NoResult]]
    /\ UNCHANGED <<detectCalls, valid_results, assessment, hist, ext>>

\* safe_detect of provider i up to its await of detect
SafeDetectBegin(i) ==
    /\ pc = "gathering"
    /\ task[i].st = "new"
    /\ \E configured \in ConfigurationOutcomes :
         /\ configCheck' = [configCheck EXCEPT ![i] = configured]
         /\ \/ /\ configured = "False"
               /\ task' = [task EXCEPT ![i] =
                    [st  |-> "returned",
                     res |-> SafeDetectNotConfigured(providers[i])]]
               /\ firstDone' = FirstDone(i)
               /\ UNCHANGED detectCalls
            \/ /\ configured = "raise"
               /\ task' = [task EXCEPT ![i] =
                    [st |-> "raised", res |-> NoResult]]
               /\ firstDone' = FirstDone(i)
               /\ UNCHANGED detectCalls
            \/ /\ configured = "True"
               /\ task' = [task EXCEPT ![i] =
                    [st |-> "detecting", res |-> NoResult]]
               /\ detectCalls' = [detectCalls EXCEPT ![i] = @ + 1]
               /\ UNCHANGED firstDone
    /\ UNCHANGED <<pc, valid_results, assessment, detected, ext>>

\* safe_detect of provider i from the completion of detect to its return
SafeDetectEnd(i) ==
    /\ pc = "gathering"
    /\ task[i].st = "detecting"
    /\ \E elapsed \in ElapsedMs :
         \/ \E result \in DetectReturns(providers[i]) :
              /\ detected' = [detected EXCEPT ![i] =
                    [kind |-> "return", val |-> result]]
              /\ task' = [task EXCEPT ![i] =
                    [st  |-> "returned",
                     res |-> SafeDetectReturned(result, elapsed)]]
         \/ \E e \in Faults :
              /\ detected' = [detected EXCEPT ![i] =
                    [kind |-> "raise", val |-> e]]
              /\ task' = [task EXCEPT ![i] =
                    [st  |-> "returned",
                     res |-> SafeDetectCaught(providers[i], e, elapsed)]]
    /\ firstDone' = FirstDone(i)
    /\ UNCHANGED <<pc, detectCalls, valid_results, assessment, configCheck, ext>>

\* mutant: the collection stops at the first task that raised
RECURSIVE ValidResults_StopsAtRaise(_, _)
ValidResults_StopsAtRaise(tasks, n) ==
    IF n = 0 THEN <<>>
    ELSE IF \E k \in 1..n : tasks[k].st = "raised"
         THEN ValidResults_StopsAtRaise(tasks, n - 1)
         ELSE Append(ValidResults_StopsAtRaise(tasks, n - 1), tasks[n].res)

\* mutant: the results collected in reverse
RECURSIVE ValidResults_Reversed(_, _)
ValidResults_Reversed(tasks, n) ==
    IF n = 0 THEN <<>>
    ELSE IF tasks[n].st = "returned"
         THEN <<tasks[n].res>> \o ValidResults_Reversed(tasks, n - 1)
         ELSE ValidResults_Reversed(tasks, n - 1)

\* the filter loop over gather's results: the DetectionResult objects, in
\* the order of the tasks
RECURSIVE ValidResults(_, _)
ValidResults(tasks, n) ==
    IF n = 0 THEN <<>>
    ELSE IF tasks[n].st = "returned"
         THEN Append(ValidResults(tasks, n - 1), tasks[n].res)
         ELSE ValidResults(tasks, n - 1)

\* mutant: the wait ends with the first task that finishes
GatherDone_FirstCompleted == \E i \in ProviderIds : Finished(task[i])

\* asyncio.gather(*provider_tasks, return_exceptions=True) is done
GatherDone == \A i \in ProviderIds : Finished(task[i])

\* analyze_file from the return of gather to its own return
AnalyzeFileJoin ==
    /\ pc = "gathering"
    /\ GatherDone
    /\ valid_results' = ValidResults(task, Len(providers))
    /\ assessment' = BuildAssessment(valid_results')
    /\ pc' = "done"
    /\ UNCHANGED <<task, detectCalls, hist, ext>>

Init ==
    /\ pc = "idle"
    /\ task = [i \in ProviderIds |-> [st |-> "none", res |-> NoResult]]
    /\ detectCalls = [i \in ProviderIds |-> 0]
    /\ valid_results = <<>>
    /\ assessment = NoAssessment
    /\ configCheck = [i \in ProviderIds |-> "none"]
    /\ detected = [i \in ProviderIds |-> [kind |-> "none", val |-> NoResult]]
    /\ firstDone = 0
    /\ call = NoCall
    /\ RouterIdle

Next ==
    \/ AnalyzeFileStart
    \/ \E i \in ProviderIds : SafeDetectBegin(i)
    \/ \E i \in ProviderIds : SafeDetectEnd(i)
    \/ AnalyzeFileJoin

Spec == Init /\ [][Next]_vars

----------------------------------------------------------------------------
(* Fusion and explanation on their own: analyze_file from the point where  *)
(* valid_results is built, for report lists drawn from bounded sets.       *)

MaxReports == 2

SeqsUpTo(S, n) == UNION {[1..k -> S] : k \in 0..n}

\* reports that differ in what the fusion reads: status, confidence,
\* matches_found, risk_level
ScoreReports ==
    {CreateResult("TinEye", "reverse_search", "success", c, t, m, 35,
                  EmptyMetadata, None) :
        c \in {0, 80, 81, 150}, t \in RiskLevel, m \in {0, 2}}
    \cup
    {CreateResult("TinEye", "reverse_search", "error", 95, "critical", 2, 35,
                  EmptyMetadata, "unsupported file type"),
     CreateResult("TinEye", "reverse_search", "timeout", 0, "low", 0, 35,
                  EmptyMetadata, "request timed out"),
     SafeDetectNotConfigured("TinEye")}

\* the metadata a detect of the capability can attach
MetadataChoices(capability) ==
    {EmptyMetadata, PopulatedMetadata(capability)}
    \cup (IF capability = "face_detection"
          THEN {[EmptyMetadata EXCEPT !.total_faces = 2]} ELSE {})

\* reports that differ in what the explanation generator reads: status,
\* capability, matches_found, metadata
FactorReports ==
    UNION {
      {CreateResult(name, CapabilityOf(name), "success", 60, "medium", m, 35,
                    md, None) :
          m \in {0, 2}, md \in MetadataChoices(CapabilityOf(name))}
      \cup
      {CreateResult(name, CapabilityOf(name), "error", 0, "low", 2, 35,
                    PopulatedMetadata(CapabilityOf(name)),
                    "unsupported file type")} :
      name \in {providers[i] : i \in ProviderIds}}

FusionInputs ==
    SeqsUpTo(ScoreReports, MaxReports) \cup SeqsUpTo(FactorReports, MaxReports)

\* analyze_file from the built valid_results to its return
Fuse ==
    /\ pc = "fusing"
    /\ assessment' = BuildAssessment(valid_results)
    /\ pc' = "done"
    /\ UNCHANGED <<task, detectCalls, valid_results, hist, ext>>

InitFusion ==
    /\ pc = "fusing"
    /\ task = [i \in ProviderIds |-> [st |-> "none", res |-> NoResult]]
    /\ detectCalls = [i \in ProviderIds |-> 0]
    /\ valid_results \in FusionInputs
    /\ assessment = NoAssessment
    /\ configCheck = [i \in ProviderIds |-> "none"]
    /\ detected = [i \in ProviderIds |-> [kind |-> "none", val |-> NoResult]]
    /\ firstDone = 0
    /\ call = NoCall
    /\ RouterIdle

NextFusion == Fuse

SpecFusion == InitFusion /\ [][NextFusion]_vars

----------------------------------------------------------------------------
(* The five registered providers: what their own check_configuration and   *)
(* detect do with a file type and with the answer of the external service. *)
(* One safe_detect call of one provider, followed by the fusion of its     *)
(* report.                                                                 *)

\* what detect did: returned a DetectionResult or raised an exception
Returned(result) == [kind |-> "return", val |-> result]
Raised(e) == [kind |-> "raise", val |-> e]

\* the answer of the external service (or the draw of random, for the two
\* mock providers); every provider reads its own fields
EmptyResponse ==
    [kind        |-> "ok",       \* ok, timeout, raise, ClientError,
                                 \* NoCredentialsError
     status_code |-> 200,        \* response.status_code
     error       |-> FALSE,      \* "error" in data / data["status"] != "ok"
     code        |-> "",         \* e.response['Error']['Code']
     faces       |-> 0,          \* len(faceAnnotations) / len(FaceDetails)
     objects     |-> <<>>,       \* names of localizedObjectAnnotations
     text        |-> FALSE,      \* len(textAnnotations) > 0
     adult       |-> "UNKNOWN",
     violence    |-> "UNKNOWN",
     celebrities |-> <<>>,       \* CelebrityFaces
     matches     |-> <<>>,       \* TinEye matches: [url, score in percent]
     flag        |-> FALSE,      \* random.choice: is_deepfake / has_match
     confidence  |-> 0,          \* random.uniform
     exc         |-> [cls |-> "", msg |-> ""]]   \* the exception raised

\* file_type.startswith(prefix), for the MIME types of the allow-list
StartsWith(file_type, prefix) ==
    CASE prefix = "image/" ->
           file_type \in {"image/jpeg", "image/png", "image/gif", "image/webp"}
      [] prefix = "audio/" ->
           file_type \in {"audio/mpeg", "audio/wav", "audio/ogg"}
      [] prefix = "video/" ->
           file_type \in {"video/mp4", "video/webm"}

RECURSIVE SumOf(_, _)
SumOf(s, n) == IF n = 0 THEN 0 ELSE SumOf(s, n - 1) + s[n]

\* s[:n]
Take(s, n) == SubSeq(s, 1, IF Len(s) < n THEN Len(s) ELSE n)

LikelyOrVery == {"LIKELY", "VERY_LIKELY"}

\* GoogleVisionProvider.detect: the confidence before min(confidence, 100.0)
GoogleConfidence(r) ==
    (IF r.faces > 0 THEN 30 ELSE 0)
    + (IF Len(r.objects) > 0 THEN 20 ELSE 0)
    + (IF r.text THEN 20 ELSE 0)
    + (IF r.adult \in LikelyOrVery THEN 40 ELSE 0)
    + (IF r.violence \in LikelyOrVery THEN 30 ELSE 0)

\* ', '.join(top_objects)
RECURSIVE Join(_, _)
Join(names, n) ==
    IF n = 0 THEN ""
    ELSE IF n = 1 THEN names[1]
    ELSE Join(names, n - 1) \o ", " \o names[n]

\* GoogleVisionProvider.detect: the risk_factors list of the metadata
GoogleRiskFactors(r) ==
    (IF r.faces > 0
     THEN <<ToString(r.faces) \o " human face(s) detected">> ELSE <<>>)
    \o (IF Len(r.objects) > 0
        THEN <<"Objects detected: "
                  \o Join(Take(r.objects, 3), Len(Take(r.objects, 3)))>>
        ELSE <<>>)
    \o (IF r.text THEN <<"Text content detected in image">> ELSE <<>>)
    \o (IF r.adult \in LikelyOrVery
        THEN <<"Potentially sensitive content detected">> ELSE <<>>)
    \o (IF r.violence \in LikelyOrVery
        THEN <<"Violent content detected">> ELSE <<>>)

\* mutant: the error report keeps a confidence and a match count
GoogleError_KeepsScore(error_message) ==
    CreateResult("Google_Vision", "image_analysis", "error", 50, "medium", 1,
                 0, EmptyMetadata, error_message)

\* GoogleVisionProvider.detect: its error returns,
\* _create_result(capability="image_analysis", status=ERROR, error_message=..)
GoogleError(error_message) ==
    CreateResult("Google_Vision", "image_analysis", "error", 0, "low", 0,
                 0, EmptyMetadata, error_message)

\* GoogleVisionProvider.detect
GoogleVisionDetect(file_type, r) ==
    IF ~StartsWith(file_type, "image/")
    THEN Returned(GoogleError("Google Vision only supports image files"))
    ELSE IF r.kind = "timeout"
    THEN Returned(CreateResult("Google_Vision", "image_analysis", "timeout",
            0, "low", 0, 0, EmptyMetadata,
            "Google Vision request timed out"))
    ELSE IF r.kind # "ok"
    THEN Returned(GoogleError("Google Vision error: " \o Str(r.exc)))
    ELSE IF r.status_code # 200
    THEN Returned(GoogleError("Google Vision API error: "
                                 \o ToString(r.status_code)))
    ELSE IF r.error
    THEN Returned(GoogleError("Google Vision error: invalid request"))
    ELSE LET confidence == IF GoogleConfidence(r) > 100 THEN 100
                           ELSE GoogleConfidence(r)
             matches_found == r.faces
         IN  Returned(CreateResult("Google_Vision", "image_analysis",
                "success", confidence,
                DetermineRiskLevel(confidence, matches_found), matches_found,
                0, [EmptyMetadata EXCEPT
                      !.risk_factors = GoogleRiskFactors(r)],
                None))

\* sum(celeb.get('MatchConfidence', 0) ...) / len(celebrities)
RECURSIVE SumConfidence(_, _)
SumConfidence(celebrities, n) ==
    IF n = 0 THEN 0
    ELSE SumConfidence(celebrities, n - 1) + celebrities[n].MatchConfidence

\* the "celebrities" list of the metadata: name and confidence of each of
\* celebrities[:5]
CelebrityEntries(celebrities) ==
    [k \in 1..Len(Take(celebrities, 5)) |->
        [name       |-> celebrities[k].Name,
         confidence |-> celebrities[k].MatchConfidence]]

\* AWSRekognitionProvider.detect
AWSRekognitionDetect(file_type, r) ==
    IF ~StartsWith(file_type, "image/")
    THEN Returned(CreateResult("AWS_Rekognition", "face_detection", "error",
            0, "low", 0, 0, EmptyMetadata,
            "AWS Rekognition only supports image files"))
    ELSE IF r.kind = "ClientError"
    THEN Returned(CreateResult("AWS_Rekognition", "face_detection", "error",
            0, "low", 0, 0, EmptyMetadata,
            IF r.code = "InvalidImageFormatException"
            THEN "Invalid image format for AWS Rekognition"
            ELSE IF r.code = "ImageTooLargeException"
            THEN "Image too large for AWS Rekognition"
            ELSE "AWS error: " \o r.code))
    ELSE IF r.kind = "NoCredentialsError"
    THEN Returned(CreateResult("AWS_Rekognition", "face_detection", "error",
            0, "low", 0, 0, EmptyMetadata,
            "AWS credentials not configured"))
    ELSE IF r.kind # "ok"
    THEN Raised(r.exc)
    ELSE LET celebrities == r.celebrities
             total_matches == Len(celebrities)
             total_faces == r.faces
             confidence ==
                 IF celebrities # <<>>
                 THEN SumConfidence(celebrities, Len(celebrities))
                         \div Len(celebrities)
                 ELSE IF total_faces > 0 THEN 60 ELSE 0
         IN  Returned(CreateResult("AWS_Rekognition", "face_detection",
                "success", confidence,
                DetermineRiskLevel(confidence, total_matches), total_matches,
                0, [EmptyMetadata EXCEPT
                      !.celebrities = CelebrityEntries(celebrities),
                      !.total_faces = total_faces],
                None))

\* [match.get("score", 0) for match in matches[:5]], in percent
TopScores(matches) ==
    [k \in 1..Len(Take(matches, 5)) |-> matches[k].score]

\* TinEyeProvider.detect
TinEyeDetect(file_type, r) ==
    IF ~StartsWith(file_type, "image/")
    THEN Returned(CreateResult("TinEye", "reverse_search", "error",
            0, "low", 0, 0, EmptyMetadata,
            "TinEye only supports image files"))
    ELSE IF r.kind = "timeout"
    THEN Returned(CreateResult("TinEye", "reverse_search", "timeout",
            0, "low", 0, 0, EmptyMetadata, "TinEye request timed out"))
    ELSE IF r.kind # "ok"
    THEN Raised(r.exc)
    ELSE IF r.status_code # 200
    THEN Returned(CreateResult("TinEye", "reverse_search", "error",
            0, "low", 0, 0, EmptyMetadata,
            "TinEye API error: " \o ToString(r.status_code)))
    ELSE IF r.error
    THEN Returned(CreateResult("TinEye", "reverse_search", "error",
            0, "low", 0, 0, EmptyMetadata, "TinEye error: Unknown error"))
    ELSE LET matches == r.matches
             total_matches == Len(matches)
             top_scores == TopScores(matches)
             confidence ==
                 IF total_matches > 0
                 THEN SumOf(top_scores, Len(top_scores)) \div Len(top_scores)
                 ELSE 0
         IN  Returned(CreateResult("TinEye", "reverse_search", "success",
                confidence, DetermineRiskLevel(confidence, total_matches),
                total_matches, 0,
                [EmptyMetadata EXCEPT !.matches = Take(matches, 10)],
                None))

\* SensityProvider.detect (a mock: r.flag and r.confidence are its random
\* draws)
SensityDetect(file_type, r) ==
    IF StartsWith(file_type, "image/") \/ StartsWith(file_type, "audio/")
    THEN LET is_deepfake == r.flag
             matches == IF is_deepfake THEN 1 ELSE 0
             techniques ==
                 IF ~is_deepfake THEN <<>>
                 ELSE IF StartsWith(file_type, "image/")
                 THEN <<"face_swap", "expression_transfer">>
                 ELSE <<"voice_conversion", "speech_synthesis">>
         IN  Returned(CreateResult("Sensity_AI", "deepfake_detection",
                "success", r.confidence,
                DetermineRiskLevel(r.confidence, matches), matches, 0,
                [EmptyMetadata EXCEPT !.techniques_detected = techniques],
                None))
    ELSE Returned(CreateResult("Sensity_AI", "deepfake_detection", "error",
            0, "low", 0, 0, EmptyMetadata,
            "Sensity AI supports only image and audio files"))

\* ACRCloudProvider.detect (a mock: r.flag and r.confidence are its random
\* draws)
ACRCloudDetect(file_type, r) ==
    IF ~StartsWith(file_type, "audio/")
    THEN Returned(CreateResult("ACRCloud", "audio_fingerprint", "error",
            0, "low", 0, 0, EmptyMetadata,
            "ACRCloud only supports audio files"))
    ELSE LET has_match == r.flag
             matches_found == IF has_match THEN 1 ELSE 0
             music == IF has_match
                      THEN <<[title |-> "Shape of You", score |-> r.confidence]>>
                      ELSE <<>>
         IN  Returned(CreateResult("ACRCloud", "audio_fingerprint", "success",
                r.confidence,
                DetermineRiskLevel(r.confidence, matches_found),
                matches_found, 0,
                [EmptyMetadata EXCEPT !.music = music], None))

\* provider.detect(file_content, file_type, filename) of the named provider
ProviderDetect(name, file_type, r) ==
    CASE name = "Google_Vision"   -> GoogleVisionDetect(file_type, r)
      [] name = "AWS_Rekognition" -> AWSRekognitionDetect(file_type, r)
      [] name = "TinEye"          -> TinEyeDetect(file_type, r)
      [] name = "Sensity_AI"      -> SensityDetect(file_type, r)
      [] name = "ACRCloud"        -> ACRCloudDetect(file_type, r)

\* provider.check_configuration(): the two mocks are always configured, the
\* others when their key is set (AWS: when its client could be built)
CheckConfiguration(name, key_set) ==
    IF name \in {"Sensity_AI", "ACRCloud"} THEN TRUE ELSE key_set

\* safe_detect of the named provider, from call to return
SafeDetect(name, key_set, file_type, r, elapsed) ==
    IF ~CheckConfiguration(name, key_set)
    THEN SafeDetectNotConfigured(name)
    ELSE LET outcome == ProviderDetect(name, file_type, r)
         IN  IF outcome.kind = "return"
             THEN SafeDetectReturned(outcome.val, elapsed)
             ELSE SafeDetectCaught(name, outcome.val, elapsed)

Celebrity(name, confidence) ==
    [Name |-> name, MatchConfidence |-> confidence]

Match(url, score) == [url |-> url, score |-> score]

\* the longest list an external service answers with
MaxListed == 6

\* a list of n entries that alternates a and b
Alternating(a, b, n) == [k \in 1..n |-> IF k % 2 = 1 THEN a ELSE b]

CelebrityLists ==
    {Alternating(Celebrity("Ada Example", 97), Celebrity("Bo Sample", 91), n) :
        n \in {0, 1, 2, MaxListed}}

MatchLists ==
    {Alternating(Match("example.org/a.jpg", 90), Match("example.net/b.jpg", 70), n) :
        n \in {0, 1, 2, MaxListed}}

\* a failure of the call to the external service
FailedResponses ==
    {[EmptyResponse EXCEPT !.kind = "timeout"]}
    \cup {[EmptyResponse EXCEPT !.kind = "raise", !.exc = e] : e \in Faults}
    \cup {[EmptyResponse EXCEPT !.status_code = 403],
          [EmptyResponse EXCEPT !.error = TRUE]}

\* the answers of the service of the named provider
Responses(name) ==
    CASE name = "Google_Vision" ->
           FailedResponses \cup
           {[EmptyResponse EXCEPT !.faces = f, !.objects = o, !.text = t,
                                  !.adult = a, !.violence = v] :
               f \in {0, 2}, o \in {<<>>, <<"Person", "Hat">>},
               t \in BOOLEAN, a \in {"UNKNOWN", "VERY_LIKELY"},
               v \in {"UNKNOWN", "LIKELY"}}
      [] name = "AWS_Rekognition" ->
           {[EmptyResponse EXCEPT !.kind = "ClientError", !.code = c] :
               c \in {"InvalidImageFormatException", "ImageTooLargeException",
                      "ThrottlingException"}}
           \cup {[EmptyResponse EXCEPT !.kind = "NoCredentialsError"]}
           \cup {[EmptyResponse EXCEPT !.kind = "raise", !.exc = e] :
                    e \in Faults}
           \cup {[EmptyResponse EXCEPT !.celebrities = c, !.faces = f] :
                    c \in CelebrityLists, f \in {0, 1, 2}}
      [] name = "TinEye" ->
           FailedResponses \cup
           {[EmptyResponse EXCEPT !.matches = m] : m \in MatchLists}
      [] name = "Sensity_AI" ->
           {[EmptyResponse EXCEPT !.flag = TRUE, !.confidence = c] :
               c \in {60, 70, 90, 95}}
           \cup {[EmptyResponse EXCEPT !.flag = FALSE, !.confidence = c] :
                    c \in {10, 15, 35, 40}}
      [] name = "ACRCloud" ->
           {[EmptyResponse EXCEPT !.flag = TRUE, !.confidence = c] :
               c \in {80, 98}}
           \cup {[EmptyResponse EXCEPT !.flag = FALSE, !.confidence = c] :
                    c \in {5, 25}}

\* one MIME type of each kind the upload validation lets through
FileTypes == {"image/jpeg", "audio/mpeg", "video/mp4"}

Calls ==
    UNION {
      {[provider |-> name, key_set |-> k, file_type |-> ft, response |-> r] :
          k \in BOOLEAN, ft \in FileTypes, r \in Responses(name)} :
      name \in {providers[i] : i \in ProviderIds}}

\* one safe_detect call, and analyze_file's filter loop over its result
CallSafeDetect ==
    /\ pc = "calling"
    /\ \E elapsed \in ElapsedMs :
         valid_results' =
            <<SafeDetect(call.provider, call.key_set, call.file_type,
                         call.response, elapsed)>>
    /\ pc' = "fusing"
    /\ UNCHANGED <<task, detectCalls, assessment, hist, ext>>

InitDetect ==
    /\ pc = "calling"
    /\ task = [i \in ProviderIds |-> [st |-> "none", res |-> NoResult]]
    /\ detectCalls = [i \in ProviderIds |-> 0]
    /\ valid_results = <<>>
    /\ assessment = NoAssessment
    /\ configCheck = [i \in ProviderIds |-> "none"]
    /\ detected = [i \in ProviderIds |-> [kind |-> "none", val |-> NoResult]]
    /\ firstDone = 0
    /\ call \in Calls
    /\ RouterIdle

NextDetect ==
    \/ CallSafeDetect
    \/ Fuse

SpecDetect == InitDetect /\ [][NextDetect]_vars

----------------------------------------------------------------------------
(* providers/__init__.py: _determine_risk_level on its own, for every       *)
(* confidence from 0 to 100 and every match count up to MaxMatches.         *)

MaxMatches == 6

\* the calls self._determine_risk_level(confidence, matches)
TierCalls ==
    [confidence : 0..100, matches : 0..MaxMatches, risk_level : {"none"}]

\* one call of _determine_risk_level; call.risk_level is what it returns
DetermineTier ==
    /\ pc = "rating"
    /\ call' = [call EXCEPT
                  !.risk_level = DetermineRiskLevel(call.confidence,
                                                    call.matches)]
    /\ pc' = "rated"
    /\ UNCHANGED <<task, detectCalls, valid_results, assessment, hist,
                   reqs, rate_limits, analysis_results, now, response>>

InitTier ==
    /\ pc = "rating"
    /\ task = [i \in ProviderIds |-> [st |-> "none", res |-> NoResult]]
    /\ detectCalls = [i \in ProviderIds |-> 0]
    /\ valid_results = <<>>
    /\ assessment = NoAssessment
    /\ configCheck = [i \in ProviderIds |-> "none"]
    /\ detected = [i \in ProviderIds |-> [kind |-> "none", val |-> NoResult]]
    /\ firstDone = 0
    /\ call \in TierCalls
    /\ RouterIdle

NextTier == DetermineTier

SpecTier == InitTier /\ [][NextTier]_vars

----------------------------------------------------------------------------
(* core/security.py and core/config.py *)

max_file_size == 52428800

\* settings.allowed_extensions; a file name is a sequence of characters
allowed_extensions ==
    {<<".", "j", "p", "g">>, <<".", "j", "p", "e", "g">>,
     <<".", "p", "n", "g">>, <<".", "g", "i", "f">>, <<".", "m", "p", "3">>,
     <<".", "w", "a", "v">>, <<".", "m", "p", "4">>}

allowed_mime_types ==
    {"image/jpeg", "image/png", "image/gif", "image/webp",
     "audio/mpeg", "audio/wav", "audio/ogg", "video/mp4", "video/webm"}

\* settings.rate_limit_per_minute and settings.rate_limit_per_hour (20 and
\* 100 unless the environment sets them): small values here
rate_limit_per_minute == 1

rate_limit_per_hour == 2

window_minute == 60

window_hour == 3600

\* raise HTTPException(status_code, ...)
Rejected(status_code) == [ok |-> FALSE, status_code |-> status_code]

Passed(value) == [ok |-> TRUE, value |-> value]

\* validate_file_size
ValidateFileSize(size) ==
    IF size > max_file_size THEN Rejected(413) ELSE Passed(TRUE)

\* str.replace('..', ''): left to right, without overlap
RECURSIVE RemoveDotDot(_)
RemoveDotDot(s) ==
    IF Len(s) < 2 THEN s
    ELSE IF s[1] = "." /\ s[2] = "." THEN RemoveDotDot(Tail(Tail(s)))
    ELSE <<s[1]>> \o RemoveDotDot(Tail(s))

\* str.replace(c, '') for a single character c
RECURSIVE RemoveChar(_, _)
RemoveChar(s, c) ==
    IF s = <<>> THEN s
    ELSE IF s[1] = c THEN RemoveChar(Tail(s), c)
    ELSE <<s[1]>> \o RemoveChar(Tail(s), c)

\* str.lower() on one character
LowerChar(c) ==
    CASE c = "J" -> "j" [] c = "P" -> "p" [] c = "G" -> "g"
      [] c = "N" -> "n" [] c = "T" -> "t" [] c = "X" -> "x"
      [] OTHER -> c

LowerChars(s) == [k \in 1..Len(s) |-> LowerChar(s[k])]

\* s.split('.')[-1]: what follows the last dot
RECURSIVE LastPart(_)
LastPart(s) ==
    IF s = <<>> THEN <<>>
    ELSE IF s[Len(s)] = "." THEN <<>>
    ELSE Append(LastPart(SubSeq(s, 1, Len(s) - 1)), s[Len(s)])

HasDot(s) == \E k \in DOMAIN s : s[k] = "."

\* '.' + safe_filename.split('.')[-1].lower() if '.' in safe_filename else ''
Extension(safe_filename) ==
    IF HasDot(safe_filename)
    THEN <<".">> \o LowerChars(LastPart(safe_filename))
    ELSE <<>>

\* filename.replace('..', '').replace('/', '').replace('\\', '')
SafeFilename(filename) ==
    RemoveChar(RemoveChar(RemoveDotDot(filename), "/"), "\\")

\* validate_filename
ValidateFilename(filename) ==
    IF filename = <<>> THEN Rejected(400)
    ELSE IF Extension(SafeFilename(filename)) \notin allowed_extensions
    THEN Rejected(400)
    ELSE Passed(SafeFilename(filename))

\* mutant: every detected type is let through
ValidateFileType_AllowsAll(mime_type) == Passed(mime_type)

\* validate_file_type; mime_type is what magic.from_buffer finds
ValidateFileType(mime_type) ==
    IF mime_type \notin allowed_mime_types THEN Rejected(400)
    ELSE Passed(mime_type)

\* [t for t in timestamps if now - t < window]
Within(timestamps, t_now, window) ==
    LET Recent(t) == t_now - t < window
    IN  SelectSeq(timestamps, Recent)

\* mutant: the minute limit compared with > instead of >=
CheckRateLimit_OneMore(timestamps, t_now) ==
    LET cleaned == Within(timestamps, t_now, window_hour)
        recent_requests == Within(cleaned, t_now, window_minute)
    IN  IF Len(cleaned) >= rate_limit_per_hour
        THEN [ok |-> FALSE, status_code |-> 429, timestamps |-> cleaned]
        ELSE IF Len(recent_requests) > rate_limit_per_minute
        THEN [ok |-> FALSE, status_code |-> 429, timestamps |-> cleaned]
        ELSE [ok |-> TRUE, status_code |-> 200,
              timestamps |-> Append(cleaned, t_now)]

\* check_rate_limit: whether the request is let through, and the client's
\* list of timestamps afterwards
CheckRateLimit(timestamps, t_now) ==
    LET cleaned == Within(timestamps, t_now, window_hour)
        recent_requests == Within(cleaned, t_now, window_minute)
    IN  IF Len(cleaned) >= rate_limit_per_hour
        THEN [ok |-> FALSE, status_code |-> 429, timestamps |-> cleaned]
        ELSE IF Len(recent_requests) >= rate_limit_per_minute
        THEN [ok |-> FALSE, status_code |-> 429, timestamps |-> cleaned]
        ELSE [ok |-> TRUE, status_code |-> 200,
              timestamps |-> Append(cleaned, t_now)]

----------------------------------------------------------------------------
(* core/security.py: check_rate_limit on its own, for two clients and for  *)
(* instants on both sides of the two windows.  reqs is the log of the      *)
(* calls: who called, when, and whether the call was let through.          *)

MaxChecks == 5

LimiterClients == {"10.0.0.1", "10.0.0.2"}

\* the instants at which check_rate_limit reads the clock
LimiterTimes == {0, 59, 60, 3599, 3600}

\* security_validator.check_rate_limit(client_ip)
LimiterCheck(client_ip) ==
    /\ pc = "limiting"
    /\ Len(reqs) < MaxChecks
    /\ LET checked == CheckRateLimit(rate_limits[client_ip], now)
       IN  /\ rate_limits' =
                 [rate_limits EXCEPT ![client_ip] = checked.timestamps]
           /\ reqs' = Append(reqs, [client_ip |-> client_ip, at |-> now,
                                    ok |-> checked.ok,
                                    status_code |-> checked.status_code])
    /\ UNCHANGED <<pc, task, detectCalls, valid_results, assessment, hist,
                   call, analysis_results, now, response>>

\* time passes between two calls
LimiterTick ==
    /\ pc = "limiting"
    /\ \E t \in LimiterTimes :
         /\ t > now
         /\ \A u \in LimiterTimes : u > now => t <= u
         /\ now' = t
    /\ UNCHANGED <<pc, task, detectCalls, valid_results, assessment, hist,
                   call, reqs, rate_limits, analysis_results, response>>

InitLimiter ==
    /\ pc = "limiting"
    /\ task = [i \in ProviderIds |-> [st |-> "none", res |-> NoResult]]
    /\ detectCalls = [i \in ProviderIds |-> 0]
    /\ valid_results = <<>>
    /\ assessment = NoAssessment
    /\ configCheck = [i \in ProviderIds |-> "none"]
    /\ detected = [i \in ProviderIds |-> [kind |-> "none", val |-> NoResult]]
    /\ firstDone = 0
    /\ call = NoCall
    /\ reqs = <<>>
    /\ rate_limits = [c \in LimiterClients |-> <<>>]
    /\ analysis_results = <<>>
    /\ now = 0
    /\ response = NoResponse

NextLimiter ==
    \/ \E c \in LimiterClients : LimiterCheck(c)
    \/ LimiterTick

SpecLimiter == InitLimiter /\ [][NextLimiter]_vars

----------------------------------------------------------------------------
(* aggregation/router.py: POST /api/analyze, GET /api/analysis/{file_id},  *)
(* GET /api/detections, with requests that interleave at their awaits.     *)

\* an upload: its file name, len(content) and the MIME type that
\* magic.from_buffer finds in content
Upload(filename, size, mime_type) ==
    [filename |-> filename, size |-> size, mime_type |-> mime_type]

Uploads ==
    {Upload(<<".", ".", "/", "b", ".", "P", "N", "G">>, max_file_size, "image/png"),
     Upload(<<"a", ".", "j", "p", "g">>, max_file_size + 1, "image/jpeg"),
     Upload(<<>>, 2048, "image/jpeg"),
     Upload(<<"n", ".", "t", "x", "t">>, 2048, "image/jpeg"),
     Upload(<<"R", "E", "A", "D">>, 2048, "image/jpeg"),
     Upload(<<"a", ".", "j", "p", "g">>, 2048, "application/pdf")}

\* the instants at which the clock is read
TimePoints == {0, 90}

\* mutant: the same id for every file
Uuid4_Same(requests) == 1

\* str(uuid.uuid4()): an id no earlier request was given
Uuid4(requests) ==
    1 + Cardinality({r \in RequestIds :
                        requests[r].pc \in {"gathering", "done"}})

\* what gather hands back for one request: the DetectionResult objects of
\* the tasks that returned
GatherOutcomes ==
    {[i \in ProviderIds |-> SafeDetectNotConfigured(providers[i])],
     <<SafeDetect("Google_Vision", TRUE, "image/jpeg",
                  [EmptyResponse EXCEPT !.faces = 2, !.text = TRUE], 35),
       SafeDetect("AWS_Rekognition", TRUE, "image/jpeg",
                  [EmptyResponse EXCEPT !.kind = "NoCredentialsError"], 35),
       SafeDetect("TinEye", TRUE, "image/jpeg",
                  [EmptyResponse EXCEPT !.kind = "timeout"], 35),
       SafeDetect("Sensity_AI", TRUE, "image/jpeg",
                  [EmptyResponse EXCEPT !.flag = TRUE, !.confidence = 95], 35),
       SafeDetect("ACRCloud", TRUE, "image/jpeg", EmptyResponse, 35)>>}

\* the UnifiedAnalysisResult that DetectionAggregator.analyze_file builds
AnalyzeFileResult(file_id, filename, file_type, file_size, start_time, results) ==
    [file_id           |-> file_id,
     original_filename |-> filename,
     file_type         |-> file_type,
     file_size         |-> file_size,
     created_at        |-> start_time]
    @@ BuildAssessment(results)

\* file_id in analysis_results
InStore(store, file_id) == \E k \in DOMAIN store : store[k].key = file_id

\* analysis_results[file_id]
StoreGet(store, file_id) ==
    store[CHOOSE k \in DOMAIN store : store[k].key = file_id].val

\* mutant: the store keeps the newest entry only
StorePut_KeepsNewest(store, file_id, result) ==
    <<[key |-> file_id, val |-> result]>>

\* analysis_results[file_id] = result: a new key goes to the end, a known
\* key keeps its place
StorePut(store, file_id, result) ==
    IF InStore(store, file_id)
    THEN [k \in DOMAIN store |->
            IF store[k].key = file_id
            THEN [key |-> file_id, val |-> result] ELSE store[k]]
    ELSE Append(store, [key |-> file_id, val |-> result])

\* list(analysis_results.values())
StoreValues(store) == [k \in DOMAIN store |-> store[k].val]

\* where a stable descending sort puts x in the sorted list s: behind every
\* entry that is not older
RECURSIVE InsertDesc(_, _)
InsertDesc(s, x) ==
    IF s = <<>> THEN <<x>>
    ELSE IF s[1].created_at >= x.created_at
         THEN <<s[1]>> \o InsertDesc(Tail(s), x)
         ELSE <<x>> \o s

\* recent_results.sort(key=lambda x: x.created_at, reverse=True)
RECURSIVE SortRecent(_, _)
SortRecent(values, n) ==
    IF n = 0 THEN <<>>
    ELSE InsertDesc(SortRecent(values, n - 1), values[n])

\* s[:limit], with Python's reading of a negative limit
SliceTo(s, limit) ==
    IF limit >= 0
    THEN SubSeq(s, 1, IF limit < Len(s) THEN limit ELSE Len(s))
    ELSE SubSeq(s, 1, IF Len(s) + limit > 0 THEN Len(s) + limit ELSE 0)

\* one entry of summaries
Summary(result) ==
    [file_id       |-> result.file_id,
     filename      |-> result.original_filename,
     file_type     |-> result.file_type,
     risk_level    |-> result.overall_risk_level,
     confidence    |-> result.overall_confidence,
     total_matches |-> result.total_matches,
     created_at    |-> result.created_at]

\* list_recent_analyses: the returned dictionary
ListRecentAnalyses(store, limit) ==
    LET recent_results == SortRecent(StoreValues(store), Len(store))
        shown == SliceTo(recent_results, limit)
    IN  [analyses |-> [k \in DOMAIN shown |-> Summary(shown[k])],
         total    |-> Len(store)]

\* the values of the limit query parameter
Limits == {-1, 0, 1, 10}

\* the file ids a client may ask for
FileIds == RequestIds

\* analyze_file of the router up to its first await (file.read()): the
\* rate-limit check
AnalyzeBegin(r, client_ip) ==
    /\ reqs[r].pc = "none"
    /\ IF r = 1 THEN TRUE ELSE reqs[r - 1].pc # "none"
    /\ LET checked == CheckRateLimit(rate_limits[client_ip], now)
       IN  /\ rate_limits' =
                 [rate_limits EXCEPT ![client_ip] = checked.timestamps]
           /\ reqs' = [reqs EXCEPT ![r] =
                 IF checked.ok
                 THEN [pc |-> "reading", client_ip |-> client_ip,
                       passed |-> <<"rate_limit">>, contacted |-> 0]
                 ELSE [pc |-> "rejected", client_ip |-> client_ip,
                       passed |-> <<>>, contacted |-> 0,
                       status_code |-> 429]]
    /\ UNCHANGED <<pc, task, detectCalls, valid_results, assessment, hist,
                   call, analysis_results, now, response>>

\* analyze_file of the router from the return of file.read() to the await
\* of gather in DetectionAggregator.analyze_file: the three validations,
\* the file id, and the creation of the safe_detect tasks
AnalyzeValidate(r, upload) ==
    /\ reqs[r].pc = "reading"
    /\ LET size == ValidateFileSize(upload.size)
           name == ValidateFilename(upload.filename)
           type == ValidateFileType(upload.mime_type)
           rejected(status_code, passed) ==
               [pc |-> "rejected", client_ip |-> reqs[r].client_ip,
                passed |-> reqs[r].passed \o passed, contacted |-> 0,
                status_code |-> status_code]
       IN  reqs' = [reqs EXCEPT ![r] =
             IF ~size.ok THEN rejected(size.status_code, <<>>)
             ELSE IF ~name.ok
             THEN rejected(name.status_code, <<"file_size">>)
             ELSE IF ~type.ok
             THEN rejected(type.status_code, <<"file_size", "filename">>)
             ELSE [pc |-> "gathering", client_ip |-> reqs[r].client_ip,
                   passed |-> reqs[r].passed
                                 \o <<"file_size", "filename", "file_type">>,
                   contacted |-> Len(providers),
                   upload |-> upload,
                   file_id |-> Uuid4(reqs),
                   filename |-> name.value,
                   content_type |-> type.value,
                   start_time |-> now]]
    /\ UNCHANGED <<pc, task, detectCalls, valid_results, assessment, hist,
                   call, rate_limits, analysis_results, now, response>>

\* from the return of gather to the return of the router's analyze_file:
\* the assessment is built and stored under the file id
AnalyzeFinish(r, results) ==
    /\ reqs[r].pc = "gathering"
    /\ LET result == AnalyzeFileResult(reqs[r].file_id, reqs[r].filename,
                         reqs[r].content_type, reqs[r].upload.size,
                         reqs[r].start_time, results)
       IN  /\ analysis_results' =
                 StorePut(analysis_results, reqs[r].file_id, result)
           /\ reqs' = [reqs EXCEPT ![r] =
                 [pc |-> "done", client_ip |-> reqs[r].client_ip,
                  passed |-> reqs[r].passed, contacted |-> reqs[r].contacted,
                  upload |-> reqs[r].upload, file_id |-> reqs[r].file_id,
                  status_code |-> 200, result |-> result]]
    /\ UNCHANGED <<pc, task, detectCalls, valid_results, assessment, hist,
                   call, rate_limits, now, response>>

\* get_analysis_result
GetAnalysisResult(file_id) ==
    /\ response' =
          IF ~InStore(analysis_results, file_id)
          THEN [op |-> "lookup", file_id |-> file_id, status_code |-> 404]
          ELSE [op |-> "lookup", file_id |-> file_id, status_code |-> 200,
                body |-> StoreGet(analysis_results, file_id)]
    /\ UNCHANGED <<pc, task, detectCalls, valid_results, assessment, hist,
                   call, reqs, rate_limits, analysis_results, now>>

\* list_recent_analyses; stored is the store the answer was computed from
ListRecent(limit) ==
    /\ response' =
          [op |-> "list", limit |-> limit, status_code |-> 200,
           body |-> ListRecentAnalyses(analysis_results, limit),
           stored |-> analysis_results]
    /\ UNCHANGED <<pc, task, detectCalls, valid_results, assessment, hist,
                   call, reqs, rate_limits, analysis_results, now>>

\* time passes
Tick ==
    /\ \E t \in TimePoints :
         /\ t > now
         /\ \A u \in TimePoints : u > now => t <= u
         /\ now' = t
    /\ UNCHANGED <<pc, task, detectCalls, valid_results, assessment, hist,
                   call, reqs, rate_limits, analysis_results, response>>

InitRouter ==
    /\ pc = "serving"
    /\ task = [i \in ProviderIds |-> [st |-> "none", res |-> NoResult]]
    /\ detectCalls = [i \in ProviderIds |-> 0]
    /\ valid_results = <<>>
    /\ assessment = NoAssessment
    /\ configCheck = [i \in ProviderIds |-> "none"]
    /\ detected = [i \in ProviderIds |-> [kind |-> "none", val |-> NoResult]]
    /\ firstDone = 0
    /\ call = NoCall
    /\ RouterIdle

NextRouter ==
    \/ \E r \in RequestIds, c \in Clients : AnalyzeBegin(r, c)
    \/ \E r \in RequestIds, u \in Uploads : AnalyzeValidate(r, u)
    \/ \E r \in RequestIds, g \in GatherOutcomes : AnalyzeFinish(r, g)
    \/ \E f \in FileIds : GetAnalysisResult(f)
    \/ \E l \in Limits : ListRecent(l)
    \/ Tick

SpecRouter == InitRouter /\ [][NextRouter]_vars

----------------------------------------------------------------------------
(* Properties of the safe_detect wrapper and of the dispatcher (Spec) *)

\* C1: when the detect of a configured provider raises, safe_detect returns
\* (it does not raise) a report with status error, confidence 0, match
\* count 0 and the fault's description as error message, and the step
\* leaves every other provider's task and report as they were.
C1_FaultBecomesErrorReport ==
    [][\A i \in ProviderIds :
         (task[i].st = "detecting" /\ detected'[i].kind = "raise") =>
            /\ task'[i].st = "returned"
            /\ task'[i].res.status = "error"
            /\ task'[i].res.confidence = 0
            /\ task'[i].res.matches_found = 0
            /\ task'[i].res.error_message = detected'[i].val.msg
            /\ \A j \in ProviderIds \ {i} : task'[j] = task[j]]_vars

C1_Witness ==
    /\ pc = "done"
    /\ \E i, j \in ProviderIds :
         /\ i # j
         /\ detected[i].kind = "raise"
         /\ task[i].st = "returned"
         /\ task[i].res.status = "error"
         /\ detected[j].kind = "return"
         /\ task[j].res.status = "success"

\* C2: a provider whose check_configuration() returned False never has its
\* detect invoked, and its safe_detect returns a report with status
\* not_configured, confidence 0 and match count 0.
C2_NotConfiguredNeverDetects ==
    \A i \in ProviderIds :
       configCheck[i] = "False" =>
          /\ detectCalls[i] = 0
          /\ detected[i].kind = "none"
          /\ task[i].st = "returned"
          /\ task[i].res.status = "not_configured"
          /\ task[i].res.confidence = 0
          /\ task[i].res.matches_found = 0

C2_Witness ==
    /\ pc = "done"
    /\ \E i, j \in ProviderIds :
         /\ configCheck[i] = "False"
         /\ task[i].res.status = "not_configured"
         /\ detectCalls[j] = 1

\* C3: whatever the order in which the tasks complete, when no task faults
\* the results of the assessment hold one report per registered provider
\* and the i-th report is the report of the i-th registered provider.
C3_ResultsInRegistrationOrder ==
    (pc = "done" /\ \A i \in ProviderIds : task[i].st = "returned") =>
       /\ Len(assessment.results) = Len(providers)
       /\ \A i \in ProviderIds :
            /\ assessment.results[i] = task[i].res
            /\ assessment.results[i].provider = providers[i]

\* the last registered provider finished first, the first one after its
\* detect came back
C3_Witness ==
    /\ pc = "done"
    /\ \A i \in ProviderIds : task[i].st = "returned"
    /\ firstDone = Len(providers)
    /\ detected[1].kind = "return"
    /\ Len(assessment.results) = Len(providers)

\* C4: analyze_file creates all provider tasks in one step; it returns an
\* assessment only when every task has run and finished (returned or
\* faulted); a task that is still running is not cancelled by another
\* task's completion, and a finished task's outcome is not changed.
C4_JoinsAfterAllTasks ==
    [][/\ (pc = "idle" /\ pc' # "idle") =>
             \A i \in ProviderIds : task'[i].st = "new"
       /\ pc' = "done" =>
             \A i \in ProviderIds :
                /\ task'[i].st \in {"returned", "raised"}
                /\ configCheck'[i] # "none"
       /\ pc' # "done" => assessment' = NoAssessment
       /\ \A i \in ProviderIds :
             /\ task[i].st \in {"returned", "raised"} => task'[i] = task[i]
             /\ task[i].st = "detecting" =>
                   task'[i].st \in {"detecting", "returned", "raised"}]_vars

\* the first task to finish was a success, a later one ran its detect to
\* the end, another one faulted, and the assessment came after all of them
C4_Witness ==
    /\ pc = "done"
    /\ \E i, j, k \in ProviderIds :
         /\ firstDone = i
         /\ task[i].st = "returned"
         /\ task[i].res.status = "success"
         /\ j # i
         /\ detected[j].kind = "return"
         /\ k # i
         /\ task[k].st = "raised"

----------------------------------------------------------------------------
(* Properties of the fusion and of the explanation generator (SpecFusion) *)

\* the order low < medium < high < critical
TierRank(t) ==
    CASE t = "low"      -> 1
      [] t = "medium"   -> 2
      [] t = "high"     -> 3
      [] t = "critical" -> 4

SuccessAt(k) == valid_results[k].status = "success"

SomeSuccess == \E k \in DOMAIN valid_results : SuccessAt(k)

\* C5: with at least one successful report, the overall tier is the tier of
\* some successful report and no successful report has a higher tier; the
\* tiers of the other reports do not count.
C5_OverallTierIsMaxOfSuccessful ==
    (pc = "done" /\ SomeSuccess) =>
       /\ \E k \in DOMAIN valid_results :
            /\ SuccessAt(k)
            /\ valid_results[k].risk_level = assessment.overall_risk_level
       /\ \A k \in DOMAIN valid_results :
            SuccessAt(k) =>
               TierRank(valid_results[k].risk_level)
                  <= TierRank(assessment.overall_risk_level)

\* a high success next to a critical error report gives high
C5_Witness ==
    /\ pc = "done"
    /\ Len(valid_results) = 2
    /\ SuccessAt(1) /\ valid_results[1].risk_level = "high"
    /\ ~SuccessAt(2) /\ valid_results[2].risk_level = "critical"
    /\ assessment.overall_risk_level = "high"

\* C6: for a report list without a successful report (the empty list
\* included) the fusion gives tier low and confidence 0.0, in an assessment
\* that is built like any other (with the low-tier recommendations).
C6_NoSuccessGivesLowZero ==
    (pc = "done" /\ ~SomeSuccess) =>
       /\ assessment.overall_risk_level = "low"
       /\ assessment.overall_confidence.num = 0
       /\ assessment.overall_confidence.den > 0
       /\ assessment.results = valid_results
       /\ assessment.recommendations = LowRecommendations

C6_Witness ==
    /\ pc = "done"
    /\ Len(valid_results) = 2
    /\ ~SomeSuccess
    /\ \E k \in DOMAIN valid_results :
         /\ valid_results[k].status = "error"
         /\ valid_results[k].risk_level = "critical"
         /\ valid_results[k].confidence = 95
    /\ assessment.overall_risk_level = "low"

\* the weight of the claim, in tenths: 1.0, plus 0.5 for a match count > 0,
\* plus 0.3 for a confidence strictly above 80
C7_Weight(r) ==
    IF r.matches_found > 0
    THEN (IF r.confidence > 80 THEN 18 ELSE 15)
    ELSE (IF r.confidence > 80 THEN 13 ELSE 10)

\* sum of confidence x weight over the successful reports among the first n
RECURSIVE C7_Numerator(_, _)
C7_Numerator(results, n) ==
    IF n = 0 THEN 0
    ELSE C7_Numerator(results, n - 1)
         + (IF results[n].status = "success"
            THEN results[n].confidence * C7_Weight(results[n]) ELSE 0)

\* sum of the weights of the successful reports among the first n
RECURSIVE C7_Denominator(_, _)
C7_Denominator(results, n) ==
    IF n = 0 THEN 0
    ELSE C7_Denominator(results, n - 1)
         + (IF results[n].status = "success"
            THEN C7_Weight(results[n]) ELSE 0)

C8_YieldsFactor(r) ==
    CASE r.capability = "image_analysis" -> r.metadata.risk_factors # <<>>
      [] r.capability = "face_detection" ->
           r.metadata.celebrities # <<>> \/ r.metadata.total_faces > 0
      [] r.capability = "reverse_search" -> r.matches_found > 0
      [] r.capability = "deepfake_detection" ->
           r.metadata.techniques_detected # <<>>
      [] r.capability = "audio_fingerprint" -> r.metadata.music # <<>>
      [] OTHER -> FALSE

DefaultIn(factors) == \E k \in DOMAIN factors : factors[k] = DefaultFactor

\* C8: the risk-factor list is never empty, and the default factor is in it
\* if and only if no successful report yields a capability-specific factor;
\* when present it is the only entry.
C8_DefaultIffNoFactor ==
    pc = "done" =>
       /\ assessment.risk_factors # <<>>
       /\ DefaultIn(assessment.risk_factors)
             <=> \A k \in DOMAIN valid_results :
                    SuccessAt(k) => ~C8_YieldsFactor(valid_results[k])
       /\ DefaultIn(assessment.risk_factors)
             => assessment.risk_factors = <<DefaultFactor>>

----------------------------------------------------------------------------
(* End-to-end scenarios (Spec) *)

ReportOf(i) == task[i].res

\* one provider returned success(95, 6 matches, critical); every other one
\* returned not_configured or error, at least one of each
C9_Scenario ==
    /\ pc = "done"
    /\ \A i \in ProviderIds : task[i].st = "returned"
    /\ \E i \in ProviderIds :
         /\ ReportOf(i).status = "success"
         /\ ReportOf(i).confidence = 95
         /\ ReportOf(i).matches_found = 6
         /\ ReportOf(i).risk_level = "critical"
         /\ \A j \in ProviderIds \ {i} :
              ReportOf(j).status \in {"not_configured", "error"}
    /\ \E j \in ProviderIds : ReportOf(j).status = "not_configured"
    /\ \E j \in ProviderIds : ReportOf(j).status = "error"

\* C9: in that scenario, whatever the capability of the successful
\* provider, the assessment has tier critical, confidence 95, total match
\* count 6, a risk-factor list with the provider's factor and without the
\* default factor, and the critical-tier recommendations.
C9_EndToEndOneSuccess ==
    C9_Scenario =>
       /\ assessment.overall_risk_level = "critical"
       /\ assessment.overall_confidence.num
             = 95 * assessment.overall_confidence.den
       /\ assessment.total_matches = 6
       /\ assessment.risk_factors # <<>>
       /\ ~DefaultIn(assessment.risk_factors)
       /\ assessment.recommendations = HighRecommendations

\* C10: when every registered provider is not configured, the assessment
\* has tier low, confidence 0.0, total match count 0, the default factor as
\* its only risk factor, the low-tier recommendations, and one
\* not_configured report per provider in results.
C10_EndToEndAllNotConfigured ==
    (pc = "done" /\ \A i \in ProviderIds : configCheck[i] = "False") =>
       /\ assessment.overall_risk_level = "low"
       /\ assessment.overall_confidence.num = 0
       /\ assessment.total_matches = 0
       /\ assessment.risk_factors = <<DefaultFactor>>
       /\ assessment.recommendations = LowRecommendations
       /\ Len(assessment.results) = Len(providers)
       /\ \A i \in ProviderIds :
            /\ assessment.results[i].status = "not_configured"
            /\ assessment.results[i].provider = providers[i]

C10_Witness ==
    /\ pc = "done"
    /\ \A i \in ProviderIds : configCheck[i] = "False"
    /\ Len(assessment.results) = Len(providers)
    /\ assessment.risk_factors = <<DefaultFactor>>

----------------------------------------------------------------------------
(* Recommendations and capability tags *)

\* the canned set of a tier: one for critical and high, one for medium, one
\* for low
C11_SetOfTier(tier) ==
    CASE tier \in {"critical", "high"} -> HighRecommendations
      [] tier = "medium"               -> MediumRecommendations
      [] tier = "low"                  -> LowRecommendations

\* C11: the recommendations of an assessment are the canned set of its
\* overall tier, whatever its reports are (so two analyses with the same
\* tier get the same list); critical and high share a set, and that set,
\* the medium set and the low set differ from one another.
C11_RecommendationsByTierAlone ==
    /\ HighRecommendations # MediumRecommendations
    /\ HighRecommendations # LowRecommendations
    /\ MediumRecommendations # LowRecommendations
    /\ pc = "done" =>
          assessment.recommendations
             = C11_SetOfTier(assessment.overall_risk_level)

\* tier high from two reports, neither of them critical
C11_Witness ==
    /\ pc = "done"
    /\ Len(valid_results) = 2
    /\ SuccessAt(1) /\ valid_results[1].risk_level = "high"
    /\ SuccessAt(2) /\ valid_results[2].risk_level = "medium"
    /\ assessment.overall_risk_level = "high"
    /\ assessment.recommendations = HighRecommendations

\* the five enumerated capability tags
C18_Capabilities ==
    {"image_analysis", "face_detection", "reverse_search",
     "deepfake_detection", "audio_fingerprint"}

\* C18: every report in the results of an assessment carries one of the five
\* capability tags, and the report of a provider is found under the
\* capability tag of that provider, whatever its status.
C18_ReportsCarryCapabilityTag ==
    pc = "done" =>
       \A k \in DOMAIN assessment.results :
          /\ assessment.results[k].capability \in C18_Capabilities
          /\ assessment.results[k].capability
                = CapabilityOf(assessment.results[k].provider)

\* the factors that state the match count of report r
C19_FactorsFor(r, factors) ==
    {k \in DOMAIN factors :
        /\ factors[k] # DefaultFactor
        /\ factors[k].num = r.matches_found}

\* C19: for every successful reverse_search report the risk-factor list
\* holds exactly one factor for it, stating its match count.
C19_ReverseSearchFactor ==
    pc = "done" =>
       \A k \in DOMAIN valid_results :
          (SuccessAt(k) /\ valid_results[k].capability = "reverse_search") =>
             Cardinality(C19_FactorsFor(valid_results[k],
                                        assessment.risk_factors)) = 1

----------------------------------------------------------------------------
(* Properties of the reports of the five registered providers (SpecDetect) *)

\* C17: every report in the results of an assessment whose status is not
\* success, built by safe_detect or returned by the provider's own detect,
\* has confidence 0 and match count 0.
C17_NonSuccessHasNoScore ==
    /\ pc = "fusing" =>
          \A k \in DOMAIN valid_results :
             valid_results[k].status # "success" =>
                /\ valid_results[k].confidence = 0
                /\ valid_results[k].matches_found = 0
    /\ pc = "done" =>
          \A k \in DOMAIN assessment.results :
             assessment.results[k].status # "success" =>
                /\ assessment.results[k].confidence = 0
                /\ assessment.results[k].matches_found = 0

\* Google Vision answered 403: the error report of its own detect is in the
\* results
C17_Witness ==
    /\ pc = "done"
    /\ call.provider = "Google_Vision" /\ call.key_set
    /\ call.file_type = "image/jpeg"
    /\ call.response.kind = "ok" /\ call.response.status_code = 403
    /\ Len(assessment.results) = 1
    /\ assessment.results[1].status = "error"
    /\ assessment.results[1].capability = "image_analysis"
    /\ assessment.results[1].confidence = 0
    /\ assessment.results[1].matches_found = 0

\* factor f is in the list
C20_Emitted(f, factors) == \E k \in DOMAIN factors : factors[k] = f

----------------------------------------------------------------------------
(* Completion of analyze_file under every provider outcome (Spec) *)

\* an assessment with one tier, one confidence between 0 and 100, a
\* non-empty list of risk factors and a list of recommendations
C12_WellFormed(a) ==
    /\ a.overall_risk_level \in RiskLevel
    /\ a.overall_confidence.den > 0
    /\ a.overall_confidence.num >= 0
    /\ a.overall_confidence.num <= 100 * a.overall_confidence.den
    /\ a.risk_factors # <<>>
    /\ a.recommendations
          \in {HighRecommendations, MediumRecommendations, LowRecommendations}

\* the outcome of the task of provider i: what the claim calls success,
\* error, timeout, not_configured, or a fault raised inside the provider
C12_Outcome(i) ==
    IF task[i].st = "raised" THEN "fault"
    ELSE IF detected[i].kind = "raise" THEN "fault"
    ELSE task[i].res.status

\* the steps task i still has to take: its check of the configuration and
\* its detect
C12_StepsOfTask(i) ==
    CASE task[i].st \in {"none", "new"} -> 2
      [] task[i].st = "detecting"      -> 1
      [] OTHER                         -> 0

RECURSIVE C12_StepsOfTasks(_)
C12_StepsOfTasks(n) ==
    IF n = 0 THEN 0 ELSE C12_StepsOfTasks(n - 1) + C12_StepsOfTask(n)

\* the steps analyze_file still has to take before it returns
C12_Remaining ==
    (IF pc = "idle" THEN 1 ELSE 0) + C12_StepsOfTasks(Len(providers))
    + (IF pc = "done" THEN 0 ELSE 1)

\* analyze_file has not returned and a step of it is ready to run: the
\* call itself, a task that has not finished, or the return from gather
C12_CanStep ==
    \/ pc = "idle"
    \/ /\ pc = "gathering"
       /\ \/ \E i \in ProviderIds : task[i].st \in {"new", "detecting"}
          \/ GatherDone

\* C12: whatever the outcomes of the providers are (success, error, timeout,
\* not_configured, or a fault raised inside a provider), analyze_file
\* completes: until it has returned, a step of it is always ready to run,
\* and every step leaves fewer steps to take; and it returns an assessment
\* that has one tier, one confidence, a non-empty risk-factor list and a
\* recommendation list.
C12_AnalyzeAlwaysCompletes ==
    /\ [](pc = "done" => C12_WellFormed(assessment))
    /\ [](pc # "done" => C12_CanStep /\ C12_Remaining > 0)
    /\ [][C12_Remaining' < C12_Remaining]_vars

\* completed although no provider succeeded: two raised a fault, one timed
\* out, one returned an error and one was not configured
C12_Witness ==
    /\ pc = "done"
    /\ C12_WellFormed(assessment)
    /\ task[1].st = "raised"
    /\ C12_Outcome(2) = "fault" /\ task[2].st = "returned"
    /\ C12_Outcome(3) = "timeout"
    /\ C12_Outcome(4) = "error" /\ detected[4].kind = "return"
    /\ C12_Outcome(5) = "not_configured"
    /\ Len(assessment.results) = 4

----------------------------------------------------------------------------
(* Properties of the HTTP handlers and of the store (SpecRouter) *)

\* request r has created its safe_detect tasks
C13_Dispatched(r) == reqs[r].pc \in {"gathering", "done"}

\* the upload of request r is within the size limit, has a file name with an
\* allowed extension and content of an allowed type
C13_UploadValid(r) ==
    /\ reqs[r].upload.size <= max_file_size
    /\ reqs[r].upload.filename # <<>>
    /\ Extension(SafeFilename(reqs[r].upload.filename)) \in allowed_extensions
    /\ reqs[r].upload.mime_type \in allowed_mime_types

\* C13: a request invokes safe_detect, and an assessment is stored for it,
\* only after its rate-limit check and its file-size, filename and file-type
\* validations have all passed, in that order; a rejected request contacts
\* no provider and stores nothing.
C13_ValidatedBeforeProviders ==
    /\ \A r \in RequestIds :
          /\ C13_Dispatched(r) =>
                /\ reqs[r].passed
                      = <<"rate_limit", "file_size", "filename", "file_type">>
                /\ C13_UploadValid(r)
                /\ reqs[r].contacted = Len(providers)
          /\ reqs[r].pc \in {"reading", "rejected"} =>
                /\ reqs[r].contacted = 0
                /\ reqs[r].passed
                      # <<"rate_limit", "file_size", "filename", "file_type">>
    /\ \A k \in DOMAIN analysis_results :
          \E r \in RequestIds :
             /\ reqs[r].pc = "done"
             /\ reqs[r].file_id = analysis_results[k].key

\* one request went through and is stored, the next one failed its
\* file-type validation and contacted no provider
C13_Witness ==
    /\ reqs[1].pc = "done"
    /\ InStore(analysis_results, reqs[1].file_id)
    /\ reqs[1].contacted = Len(providers)
    /\ reqs[2].pc = "rejected"
    /\ reqs[2].status_code = 400
    /\ reqs[2].passed = <<"rate_limit", "file_size", "filename">>
    /\ reqs[2].contacted = 0
    /\ Len(analysis_results) = 1

\* every entry of the store is still there, unchanged, after the step
C14_NothingEvicted ==
    \A k \in DOMAIN analysis_results :
       /\ k \in DOMAIN analysis_results'
       /\ analysis_results'[k] = analysis_results[k]

\* a lookup of a stored id answers 200 with the stored assessment
C14_LookupFinds ==
    \A f \in FileIds :
       (/\ response' # response
        /\ response'.op = "lookup"
        /\ response'.file_id = f
        /\ InStore(analysis_results, f)) =>
          /\ response'.status_code = 200
          /\ response'.body = StoreGet(analysis_results, f)

\* C14: once analyze has stored an assessment under an id, every later
\* lookup of that id returns that same assessment, the one analyze returned;
\* lookup and list_recent leave the store unchanged, and no entry is ever
\* evicted or changed.
C14_StoredIsKept ==
    /\ [][C14_NothingEvicted]_vars
    /\ [][C14_LookupFinds]_vars
    /\ [][response' # response => analysis_results' = analysis_results]_vars
    /\ [](response.op = "lookup" /\ response.status_code = 200 =>
             \E r \in RequestIds :
                /\ reqs[r].pc = "done"
                /\ reqs[r].file_id = response.file_id
                /\ reqs[r].result = response.body)

\* the older of two stored assessments was looked up after the second one
\* had been stored
C14_Witness ==
    /\ Len(analysis_results) = 2
    /\ response.op = "lookup"
    /\ response.status_code = 200
    /\ response.file_id = analysis_results[1].key
    /\ response.body = analysis_results[1].val

\* the summaries are summaries of different stored assessments
C15_OfStored(analyses, stored) ==
    /\ \A k \in DOMAIN analyses :
          \E j \in DOMAIN stored : analyses[k] = Summary(stored[j].val)
    /\ \A k, j \in DOMAIN analyses :
          k # j => analyses[k].file_id # analyses[j].file_id

\* C15: for every integer limit, list_recent(limit) returns at most
\* max(limit, 0) summaries; they are summaries of the stored assessments with
\* the latest creation timestamps, ordered by creation time descending; and
\* the reported total is the number of stored assessments.
C15_ListRecentBounded ==
    response.op = "list" =>
       LET analyses == response.body.analyses
           stored   == response.stored
           most     == IF response.limit > 0 THEN response.limit ELSE 0
       IN  /\ Len(analyses) <= most
           /\ response.body.total = Len(stored)
           /\ C15_OfStored(analyses, stored)
           /\ \A k \in DOMAIN analyses :
                 k > 1 => analyses[k - 1].created_at >= analyses[k].created_at
           /\ \A j \in DOMAIN stored :
                 (\A k \in DOMAIN analyses :
                     analyses[k].file_id # stored[j].key) =>
                    \A k \in DOMAIN analyses :
                       analyses[k].created_at >= stored[j].val.created_at

\* the requests whose analyze has completed
C16_Completed == {r \in RequestIds : reqs[r].pc = "done"}

\* the places of the store that hold the id of request r
C16_EntriesOf(r) ==
    {k \in DOMAIN analysis_results :
        analysis_results[k].key = reqs[r].file_id}

\* C16: under every interleaving of concurrent analyze, lookup and
\* list_recent requests, each completed analyze leaves exactly its own
\* assessment in the store under its own id, no assessment is lost or
\* replaced by another request's, and a reader never sees an entry that is
\* not a complete assessment.
C16_ConcurrentRequestsKeepStore ==
    /\ \A r \in C16_Completed :
          /\ Cardinality(C16_EntriesOf(r)) = 1
          /\ \A k \in C16_EntriesOf(r) :
                /\ analysis_results[k].val = reqs[r].result
                /\ analysis_results[k].val.file_id = reqs[r].file_id
                /\ analysis_results[k].val.original_filename
                      = SafeFilename(reqs[r].upload.filename)
    /\ \A r1, r2 \in RequestIds :
          (r1 # r2 /\ C13_Dispatched(r1) /\ C13_Dispatched(r2)) =>
             reqs[r1].file_id # reqs[r2].file_id
    /\ Len(analysis_results) = Cardinality(C16_Completed)
    /\ \A k \in DOMAIN analysis_results :
          /\ C12_WellFormed(analysis_results[k].val)
          /\ analysis_results[k].val.file_id = analysis_results[k].key
    /\ (response.op = "lookup" /\ response.status_code = 200) =>
          /\ C12_WellFormed(response.body)
          /\ response.body.file_id = response.file_id
    /\ response.op = "list" =>
          \A k \in DOMAIN response.body.analyses :
             \E r \in C16_Completed :
                response.body.analyses[k] = Summary(reqs[r].result)

\* two analyses were in flight together and the second request finished
\* first: both assessments are stored, the second request's in front
C16_Witness ==
    /\ reqs[1].pc = "done" /\ reqs[2].pc = "done"
    /\ Len(analysis_results) = 2
    /\ analysis_results[1].key = reqs[2].file_id
    /\ analysis_results[2].key = reqs[1].file_id
    /\ reqs[1].file_id < reqs[2].file_id
    /\ analysis_results[1].val = reqs[2].result
    /\ analysis_results[2].val = reqs[1].result
    /\ reqs[1].result # reqs[2].result

----------------------------------------------------------------------------
(* The per-provider tier helper (SpecTier) *)

\* the table of the tier helper: the first row that applies
C24_Tier(c, m) ==
    CASE m = 0                            -> "low"
      [] m # 0 /\ c >= 90 /\ m >= 5       -> "critical"
      [] m # 0 /\ ~(c >= 90 /\ m >= 5) /\ c >= 75 /\ m >= 3 -> "high"
      [] m # 0 /\ ~(c >= 90 /\ m >= 5) /\ ~(c >= 75 /\ m >= 3)
            /\ (c >= 50 \/ m >= 1)        -> "medium"
      [] OTHER                            -> "low"

\* C24: for every confidence c in 0..100 and match count m >= 0 the tier
\* helper returns low when m = 0; else critical when c >= 90 and m >= 5;
\* else high when c >= 75 and m >= 3; else medium when c >= 50 or m >= 1;
\* else low. So a report with at least one match is never rated low and a
\* report with no match is rated low whatever its confidence.
C24_TierTable ==
    pc = "rated" =>
       /\ call.risk_level = C24_Tier(call.confidence, call.matches)
       /\ call.matches >= 1 => call.risk_level # "low"
       /\ call.matches = 0 => call.risk_level = "low"

\* confidence 75 with 3 matches is rated high, at the edge of both
\* thresholds
C24_Witness ==
    /\ pc = "rated"
    /\ call.confidence = 75 /\ call.matches = 3
    /\ call.risk_level = "high"

----------------------------------------------------------------------------
(* The wrapper's pass-through and the dropped tasks (Spec) *)

\* the tasks whose safe_detect raised, and those that returned a report
C21_Raised == {i \in ProviderIds : task[i].st = "raised"}

C21_Returned == {i \in ProviderIds : task[i].st = "returned"}

\* the place of a provider in the registry
C21_IndexOf(name) == CHOOSE i \in ProviderIds : providers[i] = name

\* the match counts of the reports of the tasks up to n that returned
RECURSIVE C21_MatchesUpTo(_)
C21_MatchesUpTo(n) ==
    IF n = 0 THEN 0
    ELSE C21_MatchesUpTo(n - 1)
         + (IF task[n].st = "returned" /\ task[n].res.matches_found > 0
            THEN task[n].res.matches_found ELSE 0)

\* C21: when the safe_detect task of a provider raises (its configuration
\* check faults), analyze_file still returns an assessment: that provider
\* has no entry in results, the report of every other provider is there, in
\* registration order, and the tier, the confidence, the total match count
\* and the risk factors are those of the remaining reports only.
C21_RaisedTaskIsDropped ==
    (pc = "done" /\ C21_Raised # {}) =>
       LET results == assessment.results
       IN  /\ Len(results) = Cardinality(C21_Returned)
           /\ \A i \in C21_Raised :
                 \A k \in DOMAIN results : results[k].provider # providers[i]
           /\ \A i \in C21_Returned :
                 \E k \in DOMAIN results : results[k] = task[i].res
           /\ \A k, l \in DOMAIN results :
                 k < l => C21_IndexOf(results[k].provider)
                             < C21_IndexOf(results[l].provider)
           /\ assessment.total_matches = C21_MatchesUpTo(Len(providers))
           /\ assessment.overall_risk_level = CalculateOverallRisk(results)[1]
           /\ assessment.overall_confidence = CalculateOverallRisk(results)[2]
           /\ assessment.risk_factors = GenerateRiskFactors(results)
           /\ (\A i \in C21_Returned : task[i].res.status # "success") =>
                 /\ assessment.overall_risk_level = "low"
                 /\ assessment.overall_confidence = Zero

\* the configuration check of the second provider faulted; the first one
\* succeeded with 6 matches and the other three returned reports too
C21_Witness ==
    /\ pc = "done"
    /\ configCheck[2] = "raise" /\ task[2].st = "raised"
    /\ C21_Returned = ProviderIds \ {2}
    /\ task[1].res.status = "success" /\ task[1].res.matches_found = 6
    /\ Len(assessment.results) = 4
    /\ assessment.results[2].provider = providers[3]
    /\ assessment.total_matches >= 6

\* C22: when the detect of a configured provider returns a report,
\* safe_detect returns that report with provider, capability, status,
\* confidence, tier, match count, metadata and error message unchanged and
\* with the elapsed time written over its processing time; a report whose
\* own status is error or timeout keeps that status.
C22_ReturnedReportPassesThrough ==
    \A i \in ProviderIds :
       detected[i].kind = "return" =>
          LET own == detected[i].val
              out == task[i].res
          IN  /\ configCheck[i] = "True"
              /\ task[i].st = "returned"
              /\ out.provider = own.provider
              /\ out.capability = own.capability
              /\ out.status = own.status
              /\ out.confidence = own.confidence
              /\ out.risk_level = own.risk_level
              /\ out.matches_found = own.matches_found
              /\ out.metadata = own.metadata
              /\ out.error_message = own.error_message
              /\ out.processing_time_ms \in ElapsedMs
              /\ pc = "done" =>
                    \E k \in DOMAIN assessment.results :
                       assessment.results[k] = out

\* a detect returned a timeout report and another an error report: both
\* came through the wrapper with their status, stamped with the elapsed time
C22_Witness ==
    /\ pc = "done"
    /\ \E i, j \in ProviderIds :
         /\ detected[i].kind = "return" /\ detected[i].val.status = "timeout"
         /\ task[i].res.status = "timeout"
         /\ task[i].res.processing_time_ms # detected[i].val.processing_time_ms
         /\ detected[j].kind = "return" /\ detected[j].val.status = "error"
         /\ task[j].res.status = "error"
         /\ task[j].res.error_message = detected[j].val.error_message

----------------------------------------------------------------------------
(* The rate limiter (SpecLimiter) *)

\* the calls of client c among the first n that were let through less than
\* window seconds before the moment t, and not after it
C23_Accepted(c, n, t, window) ==
    {k \in 1..n :
        /\ reqs[k].client_ip = c
        /\ reqs[k].ok
        /\ reqs[k].at <= t
        /\ t - reqs[k].at < window}

\* how often the instant t is in the list
C23_Recorded(timestamps, t) ==
    Cardinality({k \in DOMAIN timestamps : timestamps[k] = t})

\* C23: for every client and every moment, the number of the client's
\* accepted requests in the preceding 60 seconds is at most
\* rate_limit_per_minute and the number in the preceding 3600 seconds is at
\* most rate_limit_per_hour; a rejected request is not recorded as a request;
\* and a client is rejected only on account of its own accepted requests.
C23_WindowsHold ==
    /\ \A c \in LimiterClients :
          \A t \in LimiterTimes :
             /\ Cardinality(C23_Accepted(c, Len(reqs), t, window_minute))
                   <= rate_limit_per_minute
             /\ Cardinality(C23_Accepted(c, Len(reqs), t, window_hour))
                   <= rate_limit_per_hour
    /\ \A c \in LimiterClients :
          \A t \in LimiterTimes :
             C23_Recorded(rate_limits[c], t)
                <= Cardinality({k \in DOMAIN reqs :
                                   /\ reqs[k].client_ip = c
                                   /\ reqs[k].ok
                                   /\ reqs[k].at = t})
    /\ \A k \in DOMAIN reqs :
          LET c == reqs[k].client_ip
              t == reqs[k].at
              minute == Cardinality(C23_Accepted(c, k - 1, t, window_minute))
              hour == Cardinality(C23_Accepted(c, k - 1, t, window_hour))
          IN  reqs[k].ok <=>
                 (minute < rate_limit_per_minute /\ hour < rate_limit_per_hour)

\* a client used up its hour, was rejected just before the hour was over
\* and let through when it was, while the other client was let through at
\* the instant of the rejection
C23_Witness ==
    \E c, d \in LimiterClients :
       \E i, j, k \in DOMAIN reqs :
          /\ c # d
          /\ reqs[i].client_ip = c /\ reqs[i].at = 3599 /\ ~reqs[i].ok
          /\ reqs[j].client_ip = d /\ reqs[j].at = 3599 /\ reqs[j].ok
          /\ i < j
          /\ reqs[k].client_ip = c /\ reqs[k].at = 3600 /\ reqs[k].ok
          /\ 3599 \notin {rate_limits[c][n] : n \in DOMAIN rate_limits[c]}

====
